---- MODULE Spec2Model ----
(***************************************************************************)
(* GoodMarket: the UBI-claim verifier of blockchain.py (result cache,      *)
(* block-range resolver, log aggregator, verdict builder) and the session  *)
(* layer of routes.py that gates authentication on its verdict.            *)
(*                                                                         *)
(* Time is the wall clock in seconds.  A worker thread serves one request  *)
(* of one browser session at a time.  Spec runs the requests one after     *)
(* the other (the source's process model); SpecConc lets the requests of   *)
(* different workers interleave at every access to the shared cache.       *)
(***************************************************************************)
EXTENDS Integers, Sequences, FiniteSets, TLC

\* ---------------------------------------------------------------- bounds
\* seconds the clock advances in one Tick
TickSeconds == 150
\* Ticks in one behaviour
MaxTicks == 2
\* requests served in one behaviour, and on the chain without any log, where
\* every verdict is the same and only the cache varies
MaxCalls == 2
MaxCallsEmpty == 4
\* requests on that chain when workers interleave
MaxCallsConc == 3
\* minigame operations in one behaviour, and the days it spans after the first
MaxGameOps == 4
MaxDays == 1
\* daily-task requests in one behaviour, rows the submission log can hold, and
\* the steps of TaskHours the clock takes
MaxClaims == 3
MaxRows == 3
TaskHours == 12
MaxTaskTicks == 3

\* ------------------------------------------------------ program constants
\* blockchain.py:10
_UBI_CACHE_TTL == 300
\* blockchain.py:11 (1000 in the source; scaled so that MaxSize+1 distinct
\* wallets fit in the model)
_UBI_CACHE_MAX_SIZE == 2
\* blockchain.py:433
search_hours == 48
\* blockchain.py:269
blocks_per_hour == 720
\* blockchain.py:205 ("UBI valid for 24 hours"; no code reads it)
CUTOFF_HOURS == 24
\* minigames_manager.py:38, 46 (20 in the source for both games; scaled so
\* that max_plays_per_day + 1 sessions fit in the model)
max_plays_per_day == 2
\* minigames_manager.py:28-33
MIN_DEPOSIT == 100
MAX_DEPOSIT == 500
MIN_WITHDRAWAL == 100
MAX_WITHDRAWAL == 10000
\* telegram_task.py:28
cooldown_hours == 24

Threads == {1, 2}

\* wallet strings a client can send; "0xA" differs from "0xa" in case only
Wallets == {"0xa", "0xA", "0xb", "0xc"}

\* a key that keeps the wallet's letter case
LowerNot(w) == w

\* str.lower() on the wallet strings of the model
Lower(w) == IF w = "0xA" THEN "0xa" ELSE w

\* ------------------------------------------------------------ JSON values
\* A field of a log entry as the node sends it: a hex string holding v, a
\* string that int(.., 16) rejects, the bare prefix "0x", JSON null, a
\* plain string s, or no such key in the object.
Hex(v) == [k |-> "hex", v |-> v, s |-> ""]
BadStr == [k |-> "bad", v |-> 0, s |-> ""]
Prefix0x == [k |-> "0x", v |-> 0, s |-> ""]
Null == [k |-> "null", v |-> 0, s |-> ""]
Missing == [k |-> "missing", v |-> 0, s |-> ""]
Str(s) == [k |-> "str", v |-> 0, s |-> s]

\* _topic_for_address: "0x" + 24 zeros + the lower-cased address digits, a
\* hex string (s keeps the digits, v the number they spell)
_topic_for_address(w) ==
    [ k |-> "hex",
      v |-> CASE Lower(w) = "0xa" -> 10 [] Lower(w) = "0xb" -> 11 [] OTHER -> 12,
      s |-> Lower(w) ]

\* log_entry.get(name, default)
Get(field, default) == IF field = Missing THEN default ELSE field

\* int(x, 16): the value, or ok = FALSE where Python raises
\* (ValueError for a string that is no hex number, TypeError for None)
Int16(x) == IF x.k = "hex" THEN [ok |-> TRUE, v |-> x.v] ELSE [ok |-> FALSE, v |-> 0]

\* f"{amount_g:.6f} G$", kept as the integer it renders
AmountG(v) == [k |-> "G$", v |-> v]
EventLogged == [k |-> "Event logged", v |-> 0]

\* ------------------------------------------------------- log aggregator
\* a transfer record typed as the contract-activity scan types its records
TransferRecordTyped(log) ==
    LET amount_wei == Int16(Get(log.data, Hex(0)))
    IN  [ contract |-> "UBI Proxy",
          block |-> Int16(Get(log.blockNumber, Hex(0))).v,
          tx_hash |-> Get(log.transactionHash, Str("Unknown")),
          method |-> "UBI claim",
          amount |-> AmountG(IF amount_wei.ok THEN amount_wei.v ELSE 0),
          activity_type |-> "transfer" ]

\* the record appended for a log of the transfer query
TransferRecord(log) ==
    LET amount_wei == Int16(Get(log.data, Hex(0)))
    IN  [ contract |-> "UBI Proxy",
          block |-> Int16(Get(log.blockNumber, Hex(0))).v,
          tx_hash |-> Get(log.transactionHash, Str("Unknown")),
          method |-> "UBI claim",
          amount |-> AmountG(IF amount_wei.ok THEN amount_wei.v ELSE 0),
          activity_type |-> "ubi_claim" ]

\* the two-stage amount of a named-event log: the data field, and topic 2
\* when int(data, 16) raises
EventAmount(log) ==
    LET data == Get(log.data, Prefix0x)
        truthy == data.k \notin {"null"} /\ ~(data.k = "str" /\ data.s = "")
    IN  IF truthy /\ data # Prefix0x
        THEN IF Int16(data).ok
             THEN AmountG(Int16(data).v)
             ELSE IF Len(log.topics) > 2 /\ Int16(log.topics[3]).ok
                  THEN AmountG(Int16(log.topics[3]).v)
                  ELSE EventLogged
        ELSE EventLogged

\* event_name.lower().replace("_", " ")
EventNames == <<"UBI_CLAIMED", "UBI_CALCULATED", "UBI_CYCLE_CALCULATED">>
EventMethod(event_name) ==
    CASE event_name = "UBI_CLAIMED" -> "ubi claimed"
      [] event_name = "UBI_CALCULATED" -> "ubi calculated"
      [] OTHER -> "ubi cycle calculated"

\* the record appended for a log of a named-event query
EventRecord(log, event_name) ==
    [ contract |-> "UBI Proxy",
      block |-> Int16(Get(log.blockNumber, Hex(0))).v,
      tx_hash |-> Get(log.transactionHash, Str("Unknown")),
      method |-> EventMethod(event_name),
      amount |-> EventAmount(log),
      activity_type |-> "ubi_event" ]

\* the prefix of logs the loop gets through: int(blockNumber, 16) raising
\* on a log leaves the loop, and the inner except keeps the records so far
RECURSIVE Decodable(_)
Decodable(logs) ==
    IF logs = <<>> THEN <<>>
    ELSE IF Int16(Get(Head(logs).blockNumber, Hex(0))).ok
         THEN <<Head(logs)>> \o Decodable(Tail(logs))
         ELSE <<>>

\* [tx_transfer loop] records of the transfer query's response
TransferRecords(logs) ==
    LET d == Decodable(logs) IN [i \in 1..Len(d) |-> TransferRecord(d[i])]

\* the manual filter of the events queried without the wallet topic
WalletFiltered(logs, event_name, wallet) ==
    IF event_name = "UBI_CLAIMED" THEN logs
    ELSE SelectSeq(logs, LAMBDA l:
             \E i \in 1..Len(l.topics) : l.topics[i] = _topic_for_address(wallet))

\* records of one named-event query's response
EventRecords(logs, event_name, wallet) ==
    LET d == Decodable(WalletFiltered(logs, event_name, wallet))
    IN  [i \in 1..Len(d) |-> EventRecord(d[i], event_name)]

\* --------------------------------------------------------- verdict builder
\* a sort without reverse=True: ascending
RECURSIVE InsertNoReverse(_, _)
InsertNoReverse(sorted, a) ==
    IF sorted = <<>> THEN <<a>>
    ELSE IF Head(sorted).block <= a.block
         THEN <<Head(sorted)>> \o InsertNoReverse(Tail(sorted), a)
         ELSE <<a>> \o sorted

\* list.sort(key=block, reverse=True): stable, descending
RECURSIVE InsertDesc(_, _)
InsertDesc(sorted, a) ==
    IF sorted = <<>> THEN <<a>>
    ELSE IF Head(sorted).block >= a.block
         THEN <<Head(sorted)>> \o InsertDesc(Tail(sorted), a)
         ELSE <<a>> \o sorted

RECURSIVE SortDesc(_)
SortDesc(acts) ==
    IF acts = <<>> THEN <<>>
    ELSE InsertDesc(SortDesc(SubSeq(acts, 1, Len(acts) - 1)), acts[Len(acts)])

CountType(acts, ty) == Len(SelectSeq(acts, LAMBDA a: a.activity_type = ty))

\* latest_activity['tx_hash'][:16] raises TypeError unless tx_hash is a string
Subscriptable(tx_hash) == tx_hash.k \in {"str", "hex", "bad", "0x"}

SuccessResult(acts) ==
    LET sorted == SortDesc(acts)
    IN  [ status |-> "success",
          message |-> "UBI VERIFICATION SUCCESS",
          activities |-> sorted,
          summary |-> [ total_activities |-> Len(sorted),
                        claims |-> CountType(sorted, "ubi_claim"),
                        events |-> CountType(sorted, "ubi_event"),
                        contracts_involved |-> 1,
                        latest_activity |-> sorted[1] ] ]

NoActivityResult == [status |-> "error", message |-> "No recent UBI claim detected"]

ExceptionResult == [status |-> "error", message |-> "UBI verification failed"]

\* ------------------------------------------------------------ result cache
\* _ubi_cache is a dict: a sequence of (key, result, timestamp) in insertion
\* order, one entry per key
CacheKeys(cache) == {cache[i].key : i \in 1..Len(cache)}

CacheEntry(cache, key) == cache[CHOOSE i \in 1..Len(cache) : cache[i].key = key]

\* _ubi_cache[key] = (result, timestamp): an existing key keeps its place
CachePut(cache, key, result, timestamp) ==
    LET e == [key |-> key, result |-> result, timestamp |-> timestamp]
    IN  IF key \in CacheKeys(cache)
        THEN [i \in 1..Len(cache) |-> IF cache[i].key = key THEN e ELSE cache[i]]
        ELSE Append(cache, e)

\* del _ubi_cache[key] for every key of keys
CacheDel(cache, keys) == SelectSeq(cache, LAMBDA e: e.key \notin keys)

\* a sweep that takes the TTL for half of what it is
ExpiredEarly(current_time, timestamp) == 2 * (current_time - timestamp) >= _UBI_CACHE_TTL

\* current_time - timestamp >= _UBI_CACHE_TTL
Expired(current_time, timestamp) == current_time - timestamp >= _UBI_CACHE_TTL

\* a lookup that still accepts an entry of exactly the TTL's age
FreshInclusive(current_time, timestamp) == current_time - timestamp <= _UBI_CACHE_TTL

\* current_time - cache_timestamp < _UBI_CACHE_TTL
Fresh(current_time, timestamp) == current_time - timestamp < _UBI_CACHE_TTL

\* expired_keys: the keys whose entry is expired, in dict order
ExpiredKeys(cache, current_time) ==
    LET x == SelectSeq(cache, LAMBDA e: Expired(current_time, e.timestamp))
    IN  [i \in 1..Len(x) |-> x[i].key]

\* sorted(_ubi_cache.keys(), key=timestamp): stable, ascending
RECURSIVE InsertAsc(_, _)
InsertAsc(sorted, e) ==
    IF sorted = <<>> THEN <<e>>
    ELSE IF Head(sorted).timestamp <= e.timestamp
         THEN <<Head(sorted)>> \o InsertAsc(Tail(sorted), e)
         ELSE <<e>> \o sorted

RECURSIVE SortAsc(_)
SortAsc(cache) ==
    IF cache = <<>> THEN <<>>
    ELSE InsertAsc(SortAsc(SubSeq(cache, 1, Len(cache) - 1)), cache[Len(cache)])

\* a size phase that removes the newest entries
EvictNewest(cache) ==
    IF Len(cache) > _UBI_CACHE_MAX_SIZE
    THEN LET sorted_keys == SortAsc(cache)
             n == Len(cache) - _UBI_CACHE_MAX_SIZE
         IN  CacheDel(cache, {sorted_keys[i].key : i \in (Len(cache) - n + 1)..Len(cache)})
    ELSE cache

\* the size phase of _cleanup_expired_cache
EvictOldest(cache) ==
    IF Len(cache) > _UBI_CACHE_MAX_SIZE
    THEN LET sorted_keys == SortAsc(cache)
             n == Len(cache) - _UBI_CACHE_MAX_SIZE
         IN  CacheDel(cache, {sorted_keys[i].key : i \in 1..n})
    ELSE cache

\* ------------------------------------------------------------- the chain
\* the chain head the node reports
LatestBlock == 100000

Keys == {Lower(w) : w \in Wallets}

TransferSig == [k |-> "hex", v |-> 1, s |-> "TRANSFER"]
EventSig == [k |-> "hex", v |-> 2, s |-> "EVENT"]
ProxyTopic == [k |-> "hex", v |-> 3, s |-> "UBI_PROXY"]

\* the block a log is in: the one its blockNumber field spells, and a block
\* just behind the head for a log object whose field is malformed or absent
BlockAt(blockNumber) == IF blockNumber.k = "hex" THEN blockNumber.v ELSE LatestBlock - 1

\* a Transfer(from proxy, to w) log and a named-event log with w indexed;
\* at is the block the node files the log under
TransferLog(w, blockNumber, data, tx) ==
    [ at |-> BlockAt(blockNumber),
      blockNumber |-> blockNumber, data |-> data, transactionHash |-> tx,
      topics |-> <<TransferSig, ProxyTopic, _topic_for_address(w)>> ]
EventLog(w, blockNumber, data, tx) ==
    [ at |-> BlockAt(blockNumber),
      blockNumber |-> blockNumber, data |-> data, transactionHash |-> tx,
      topics |-> <<EventSig, _topic_for_address(w)>> ]
EventLog3(w, blockNumber, data, tx, topic2) ==
    [ at |-> BlockAt(blockNumber),
      blockNumber |-> blockNumber, data |-> data, transactionHash |-> tx,
      topics |-> <<EventSig, _topic_for_address(w), topic2>> ]

\* eth_getLogs with fromBlock and toBlock: the logs filed in that range
InRange(logs, from_block, to_block) ==
    SelectSeq(logs, LAMBDA l: from_block <= l.at /\ l.at <= to_block)

NoLogs == [key \in Keys |-> <<>>]

\* What eth_getLogs answers when it answers: per wallet for the queries that
\* carry the wallet topic (transfer, UBI_CLAIMED), one list for the two
\* queries sent without it.
\* a well-formed chain: 0xa claimed 56 hours ago and again just now, 0xb
\* twice just now, 0xc once, 28 hours ago; one cycle event of 0xb has all its
\* parameters indexed (its data is the bare "0x", the amount is topic 2)
ChainTypical ==
    [ transfer |-> [NoLogs EXCEPT
          !["0xa"] = <<TransferLog("0xa", Hex(LatestBlock - 40000), Hex(5), Str("0xt0")),
                       TransferLog("0xa", Hex(LatestBlock - 10), Hex(5), Str("0xt1"))>>,
          !["0xb"] = <<TransferLog("0xb", Hex(LatestBlock - 7), Hex(3), Str("0xt2")),
                       TransferLog("0xb", Hex(LatestBlock - 3), Hex(4), Str("0xt3"))>>,
          !["0xc"] = <<TransferLog("0xc", Hex(LatestBlock - 20000), Hex(2), Str("0xtc"))>>],
      claimed |-> NoLogs,
      calculated |-> <<EventLog("0xb", Hex(LatestBlock - 3), Hex(4), Str("0xt3")),
                       EventLog("0xa", Hex(LatestBlock - 1), Hex(6), Str("0xt4"))>>,
      cycle |-> <<EventLog3("0xb", Hex(LatestBlock - 2), Prefix0x, Str("0xt10"), Hex(7))>> ]

\* a node that answers with malformed and incomplete log objects
ChainMalformed ==
    [ transfer |-> [NoLogs EXCEPT
          !["0xa"] = <<TransferLog("0xa", Hex(LatestBlock - 4), BadStr, Str("0xt5")),
                       TransferLog("0xa", BadStr, Hex(5), Str("0xt6")),
                       TransferLog("0xa", Hex(LatestBlock - 1), Hex(5), Str("0xt7"))>>,
          !["0xb"] = <<TransferLog("0xb", Hex(LatestBlock - 1), Hex(5), Null)>>,
          !["0xc"] = <<TransferLog("0xc", Missing, Prefix0x, Missing)>>],
      claimed |-> [NoLogs EXCEPT
          !["0xb"] = <<EventLog("0xb", Hex(LatestBlock - 5), Missing, Str("0xt8"))>>],
      calculated |-> <<>>,
      cycle |-> <<EventLog3("0xa", Hex(LatestBlock - 2), BadStr, Str("0xt9"), Hex(9))>> ]

\* nobody has claimed
ChainEmpty ==
    [transfer |-> NoLogs, claimed |-> NoLogs, calculated |-> <<>>, cycle |-> <<>>]

Chains == {ChainTypical, ChainMalformed, ChainEmpty}

\* how a request to the node ends: requests.post or .json() raises (timeout,
\* no connectivity), the answer carries "error", or it carries "result"
Outcomes == {"exception", "rpc_error", "ok"}

\* ------------------------------------------------------------------ state
VARIABLES
    chain,        \* what the node answers in this behaviour
    now,          \* time.time()
    _ubi_cache,   \* blockchain.py:9
    session,      \* the Flask session of each client
    pc,           \* where each worker is in its request
    route,        \* the route the worker serves
    frame,        \* the locals of its has_recent_ubi_claim call
    ret,          \* what that call returned
    obs,          \* instrumentation of that call (network layer, decoded logs)
    stored,       \* per key, the latest store: result, timestamp, the wallet string
                  \* of the call that stored, evicted by size since
    calls,        \* requests served so far
    resp          \* the response to each client's latest request

\* the minigames of one wallet (minigames_manager.py)
VARIABLES
    daily_game_limits,   \* table: plays_today per (game_type, game_date); 0: no row
    minigame_sessions,   \* table: the rows in insertion order; session_id is the index
    minigame_balances,   \* table: the wallet's row, if any
    disbursed,           \* G$ sent to the wallet on chain by withdrawals
    game_day,            \* date.today()
    game_ret,            \* what the latest operation returned
    game_ops,            \* operations so far
    minigame_deposits_log,  \* table: the tx_hash of its rows
    credited             \* per tx_hash, how often it was added to the balance

\* the daily tasks (telegram_task.py, routes.py)
VARIABLES
    telegram_task_log,   \* table: the rows in insertion order; id is the index
    twitter_task,        \* per wallet, the state of its Twitter task
    task_now,            \* datetime.now(timezone.utc), in hours
    task_pc,             \* where each wallet's claim request is
    task_frame,          \* its locals
    task_ret,            \* what each wallet's latest request returned
    task_claims          \* claim requests so far

verifier_vars == <<chain, now, _ubi_cache, session, pc, route, frame, ret, obs, stored, calls, resp>>

deposit_vars == <<minigame_deposits_log, credited>>

games_vars == <<daily_game_limits, minigame_sessions, minigame_balances, disbursed,
                game_day, game_ret, game_ops, deposit_vars>>

tasks_vars == <<telegram_task_log, twitter_task, task_now, task_pc, task_frame,
                task_ret, task_claims>>

vars == <<verifier_vars, games_vars, tasks_vars>>

NoRet == [status |-> "none"]

EmptyFrame ==
    [ wallet_address |-> "", cache_key |-> "", current_time |-> 0,
      expired_keys |-> <<>>, from_block |-> 0, to_block |-> 0,
      all_activities |-> <<>>, event_i |-> 1 ]

EmptyObs ==
    [ net_calls |-> 0, hit |-> FALSE, completed |-> FALSE, matched |-> 0,
      decoded |-> <<>>, fault |-> FALSE, head |-> "", logs |-> <<>>,
      contrib |-> <<>> ]

EmptySession == [wallet |-> "", verified |-> FALSE]

\* a response: the route that answered and what it answered: an HTTP status
\* ("401 auto_logout" is the 401 whose body carries auto_logout), or "handler"
\* when the wrapped handler of auth_required ran
NoResp == [route |-> "", code |-> ""]
Response(r, code) == [route |-> r, code |-> code]

\* game_configs
GameTypes == {"crash_game", "coin_flip"}
game_configs(game_type) ==
    IF game_type = "crash_game"
    THEN [max_plays_per_day |-> max_plays_per_day, min_bet |-> 10, max_bet |-> 250]
    ELSE [max_plays_per_day |-> max_plays_per_day, min_bet |-> 50, max_bet |-> 250]

NoBalance == [has |-> FALSE, available_balance |-> 0, total_withdrawn |-> 0]
BalanceRow(available_balance) ==
    [has |-> TRUE, available_balance |-> available_balance, total_withdrawn |-> 0]

NoGameRet == [op |-> "", success |-> FALSE, error |-> ""]
GameRet(op, success, error) == [op |-> op, success |-> success, error |-> error]

\* the deposits the chain scan can list: 100 G$, 50 G$ (under MIN_DEPOSIT) and
\* 300 G$, each its own transaction
DepositTxs == {"0xd1", "0xd2", "0xd3"}
Deposit(tx_hash, amount) == [tx_hash |-> tx_hash, amount |-> amount]

\* nobody plays
GamesIdle ==
    /\ daily_game_limits = [g \in GameTypes |-> [d \in 0..(MaxDays + 1) |-> 0]]
    /\ minigame_sessions = <<>>
    /\ disbursed = 0
    /\ game_day = 0
    /\ game_ret = NoGameRet
    /\ game_ops = 0
    /\ minigame_deposits_log = {}
    /\ credited = [tx_hash \in DepositTxs |-> 0]

\* the wallets that do daily tasks
TaskWallets == {"0xa", "0xb"}

NoTaskRet == [success |-> FALSE, error |-> "", platform |-> ""]
TaskRet(success, error, platform) == [success |-> success, error |-> error, platform |-> platform]

\* nobody has submitted anything
TasksIdle ==
    /\ telegram_task_log = <<>>
    /\ twitter_task = [w \in TaskWallets |-> "none"]
    /\ task_now = 0
    /\ task_pc = [w \in TaskWallets |-> "idle"]
    /\ task_frame = [w \in TaskWallets |-> [telegram_url |-> ""]]
    /\ task_ret = [w \in TaskWallets |-> NoTaskRet]
    /\ task_claims = 0

Init ==
    /\ GamesIdle
    /\ TasksIdle
    /\ minigame_balances = NoBalance
    /\ chain \in Chains
    /\ now = 0
    /\ _ubi_cache = <<>>
    /\ session = [t \in Threads |-> EmptySession]
    /\ pc = [t \in Threads |-> "idle"]
    /\ route = [t \in Threads |-> ""]
    /\ frame = [t \in Threads |-> EmptyFrame]
    /\ ret = [t \in Threads |-> NoRet]
    /\ obs = [t \in Threads |-> EmptyObs]
    /\ stored = [key \in Keys |-> [has |-> FALSE, result |-> NoRet, timestamp |-> 0, evicted |-> FALSE, by |-> "", claimless |-> FALSE]]
    /\ calls = 0
    /\ resp = [t \in Threads |-> NoResp]

\* The clock advances.  The program reads it in CleanupScan and Lookup, and
\* the store of Verdict happens at the time then current: the time that passes
\* anywhere in a request is accounted for before the next of these steps.
Tick ==
    /\ now < MaxTicks * TickSeconds
    /\ \E t \in Threads : pc[t] \in {"cleanup", "lookup", "verdict"}
    /\ now' = now + TickSeconds
    /\ UNCHANGED <<games_vars, tasks_vars, chain, _ubi_cache, session, pc, route, frame, ret, obs, stored, calls, resp>>

CallBudget(serial) ==
    IF chain # ChainEmpty THEN MaxCalls
    ELSE IF serial THEN MaxCallsEmpty ELSE MaxCallsConc

\* Somebody claims on a chain where nobody had: from here on the node answers
\* eth_getLogs with the logs of the claims.  It happens between two requests.
NewClaim ==
    /\ chain = ChainEmpty
    /\ calls < MaxCalls
    /\ \A t \in Threads : pc[t] = "idle"
    /\ chain' = ChainTypical
    /\ UNCHANGED <<games_vars, tasks_vars, now, _ubi_cache, session, pc, route, frame, ret, obs, stored, calls, resp>>

\* a worker takes a request; serial: only when no other request is in service
CanStart(t, serial) ==
    /\ pc[t] = "idle"
    /\ calls < CallBudget(serial)
    /\ serial => \A u \in Threads : pc[u] = "idle"

\* the call has_recent_ubi_claim(w) begins
Call(t, r, w) ==
    /\ pc' = [pc EXCEPT ![t] = "cleanup"]
    /\ route' = [route EXCEPT ![t] = r]
    /\ frame' = [frame EXCEPT ![t] = [EmptyFrame EXCEPT !.wallet_address = w]]
    /\ obs' = [obs EXCEPT ![t] = EmptyObs]
    /\ ret' = [ret EXCEPT ![t] = NoRet]

\* ------------------------------------------------------------- routes.py
\* POST /verify-ubi with wallet w: 400 on an empty wallet, else the verifier
VerifyUbi(t, w, serial) ==
    /\ CanStart(t, serial)
    /\ calls' = calls + 1
    /\ IF w = ""
       THEN /\ resp' = [resp EXCEPT ![t] = Response("verify_ubi", "400")]
            /\ UNCHANGED <<pc, route, frame, obs, ret>>
       ELSE /\ resp' = [resp EXCEPT ![t] = NoResp]
            /\ Call(t, "verify_ubi", w)
    /\ UNCHANGED <<games_vars, tasks_vars, chain, now, _ubi_cache, session, stored>>

\* a verify_ubi that stores the wallet in the session whatever the verdict
VerifyUbiSessionAnyVerdict(t) ==
    [session EXCEPT ![t] = [wallet |-> frame[t].wallet_address, verified |-> TRUE]]

\* session["wallet"], session["verified"] are set on status == "success" only;
\* an exception out of the verifier ends in the route's except: 500
VerifyUbiSession(t) ==
    IF pc[t] = "returned" /\ ret[t].status = "success"
    THEN [session EXCEPT ![t] = [wallet |-> frame[t].wallet_address, verified |-> TRUE]]
    ELSE session

VerifyUbiFinish(t) ==
    /\ pc[t] \in {"returned", "raised"}
    /\ route[t] = "verify_ubi"
    /\ session' = VerifyUbiSession(t)
    /\ resp' = [resp EXCEPT ![t] = Response("verify_ubi",
           IF pc[t] = "raised" THEN "500"
           ELSE IF ret[t].status = "success" THEN "200" ELSE "400")]
    /\ pc' = [pc EXCEPT ![t] = "idle"]
    /\ route' = [route EXCEPT ![t] = ""]
    /\ frame' = [frame EXCEPT ![t] = EmptyFrame]
    /\ obs' = [obs EXCEPT ![t] = EmptyObs]
    /\ ret' = [ret EXCEPT ![t] = NoRet]
    /\ UNCHANGED <<games_vars, tasks_vars, chain, now, _ubi_cache, stored, calls>>

\* an endpoint behind @auth_required: 401 without a verified session, else
\* the verifier is asked about the session's wallet
AuthRequired(t, serial) ==
    /\ CanStart(t, serial)
    /\ calls' = calls + 1
    /\ IF ~session[t].verified \/ session[t].wallet = ""
       THEN /\ resp' = [resp EXCEPT ![t] = Response("auth_required", "401")]
            /\ UNCHANGED <<pc, route, frame, obs, ret>>
       ELSE /\ resp' = [resp EXCEPT ![t] = NoResp]
            /\ Call(t, "auth_required", session[t].wallet)
    /\ UNCHANGED <<games_vars, tasks_vars, chain, now, _ubi_cache, session, stored>>

\* a wrapper that answers 401 and leaves the session as it is
AuthRequiredSessionKept(t) == session

\* a verdict other than success clears the session (401); success runs the
\* wrapped handler; an exception out of the verifier leaves the wrapper
AuthRequiredSession(t) ==
    IF pc[t] = "returned" /\ ret[t].status # "success"
    THEN [session EXCEPT ![t] = EmptySession]
    ELSE session

AuthRequiredFinish(t) ==
    /\ pc[t] \in {"returned", "raised"}
    /\ route[t] = "auth_required"
    /\ session' = AuthRequiredSession(t)
    /\ resp' = [resp EXCEPT ![t] = Response("auth_required",
           IF pc[t] = "raised" THEN "500"
           ELSE IF ret[t].status # "success" THEN "401 auto_logout" ELSE "handler")]
    /\ pc' = [pc EXCEPT ![t] = "idle"]
    /\ route' = [route EXCEPT ![t] = ""]
    /\ frame' = [frame EXCEPT ![t] = EmptyFrame]
    /\ obs' = [obs EXCEPT ![t] = EmptyObs]
    /\ ret' = [ret EXCEPT ![t] = NoRet]
    /\ UNCHANGED <<games_vars, tasks_vars, chain, now, _ubi_cache, stored, calls>>

\* GET /logout
Logout(t, serial) ==
    /\ CanStart(t, serial)
    /\ session[t] # EmptySession
    /\ calls' = calls + 1
    /\ session' = [session EXCEPT ![t] = EmptySession]
    /\ resp' = [resp EXCEPT ![t] = Response("logout", "302")]
    /\ UNCHANGED <<games_vars, tasks_vars, chain, now, _ubi_cache, pc, route, frame, ret, obs, stored>>

\* ---------------------------------------------------------- blockchain.py
\* _cleanup_expired_cache, TTL phase: the clock is read and the expired keys
\* are listed
CleanupScan(t) ==
    /\ pc[t] = "cleanup"
    /\ frame' = [frame EXCEPT ![t].expired_keys = ExpiredKeys(_ubi_cache, now)]
    /\ pc' = [pc EXCEPT ![t] = "cleanup_del"]
    /\ UNCHANGED <<games_vars, tasks_vars, chain, now, _ubi_cache, session, route, ret, obs, stored, calls, resp>>

\* the keys of expired_keys that del reaches: all of them, or those before
\* the first key another worker has deleted meanwhile (KeyError)
RECURSIVE Deletable(_, _)
Deletable(keys, present) ==
    IF keys = <<>> \/ Head(keys) \notin present THEN {}
    ELSE {Head(keys)} \cup Deletable(Tail(keys), present \ {Head(keys)})

\* for key in expired_keys: del _ubi_cache[key]
CleanupDelete(t) ==
    LET keys == frame[t].expired_keys
        gone == Deletable(keys, CacheKeys(_ubi_cache))
    IN  /\ pc[t] = "cleanup_del"
        /\ _ubi_cache' = CacheDel(_ubi_cache, gone)
        /\ pc' = [pc EXCEPT ![t] =
               IF Cardinality(gone) = Len(keys) THEN "cleanup_size" ELSE "raised"]
        /\ UNCHANGED <<games_vars, tasks_vars, chain, now, session, route, frame, ret, obs, stored, calls, resp>>

\* size phase: the oldest entries go while the dict holds more than the maximum
CleanupSize(t) ==
    /\ pc[t] = "cleanup_size"
    /\ _ubi_cache' = EvictOldest(_ubi_cache)
    /\ stored' = [key \in Keys |->
           IF key \in CacheKeys(_ubi_cache) \ CacheKeys(_ubi_cache')
           THEN [stored[key] EXCEPT !.evicted = TRUE]
           ELSE stored[key]]
    /\ pc' = [pc EXCEPT ![t] = "lookup"]
    /\ UNCHANGED <<games_vars, tasks_vars, chain, now, session, route, frame, ret, obs, calls, resp>>

\* cache_key, current_time, and the test cache_key in _ubi_cache
Lookup(t) ==
    LET key == Lower(frame[t].wallet_address)
    IN  /\ pc[t] = "lookup"
        /\ frame' = [frame EXCEPT ![t].cache_key = key, ![t].current_time = now]
        /\ pc' = [pc EXCEPT ![t] =
               IF key \in CacheKeys(_ubi_cache) THEN "read" ELSE "prepare"]
        /\ UNCHANGED <<games_vars, tasks_vars, chain, now, _ubi_cache, session, route, ret, obs, stored, calls, resp>>

\* cached_result, cache_timestamp = _ubi_cache[cache_key] (KeyError when
\* another worker has deleted the key since the test), and the TTL test
CacheRead(t) ==
    LET key == frame[t].cache_key
    IN  /\ pc[t] = "read"
        /\ IF key \notin CacheKeys(_ubi_cache)
           THEN /\ pc' = [pc EXCEPT ![t] = "raised"]
                /\ UNCHANGED <<ret, obs>>
           ELSE IF Fresh(frame[t].current_time, CacheEntry(_ubi_cache, key).timestamp)
                THEN /\ pc' = [pc EXCEPT ![t] = "returned"]
                     /\ ret' = [ret EXCEPT ![t] = CacheEntry(_ubi_cache, key).result]
                     /\ obs' = [obs EXCEPT ![t].hit = TRUE]
                ELSE /\ pc' = [pc EXCEPT ![t] = "prepare"]
                     /\ UNCHANGED <<ret, obs>>
        /\ UNCHANGED <<games_vars, tasks_vars, chain, now, _ubi_cache, session, route, frame, stored, calls, resp>>

\* _get_latest_block_number: 0 when the query fails
HeadOf(outcome) == IF outcome = "ok" THEN LatestBlock ELSE 0

\* a range that forgets the blocks-per-hour factor
BlockRangeInHours(hours_back, outcome) ==
    LET latest_block == HeadOf(outcome)
    IN  <<latest_block - hours_back, latest_block>>

\* _calculate_block_range: (from_block, latest_block); the hex() the code
\* applies to both is undone by the node that reads them
_calculate_block_range(hours_back, outcome) ==
    LET latest_block == HeadOf(outcome)
    IN  <<latest_block - (hours_back * blocks_per_hour), latest_block>>

\* _validate_ubi_contract (one query, and the ABI fetch when the proxy's
\* implementation slot was read) and _calculate_block_range(48).  What
\* validation learns is discarded; its requests are counted, and end as the
\* head query issued right after them does.
Prepare(t) ==
    /\ pc[t] = "prepare"
    /\ \E head \in {"exception", "ok"} :
          /\ frame' = [frame EXCEPT
                 ![t].from_block = _calculate_block_range(search_hours, head)[1],
                 ![t].to_block = _calculate_block_range(search_hours, head)[2]]
          /\ obs' = [obs EXCEPT
                 ![t].net_calls = @ + (IF head = "ok" THEN 2 ELSE 1) + 1,
                 ![t].completed = @ \/ head = "ok",
                 ![t].head = head]
    /\ pc' = [pc EXCEPT ![t] = "transfer"]
    /\ UNCHANGED <<games_vars, tasks_vars, chain, now, _ubi_cache, session, route, ret, stored, calls, resp>>

\* a failed sub-query that takes the records gathered so far with it
AccumulateOrDrop(all_activities, outcome, records) ==
    IF outcome = "ok" THEN all_activities \o records ELSE <<>>

\* all_activities after a sub-query: its records are appended when it
\* answered with a result, and nothing changes when it raised or errored
Accumulate(all_activities, outcome, records) ==
    IF outcome = "ok" THEN all_activities \o records ELSE all_activities

\* the unfiltered UBI_CLAIMED probe (its answer is only printed; it is counted),
\* then the transfer query proxy -> wallet; each decoded log costs one
\* _format_timestamp query
QueryTransfer(t) ==
    /\ pc[t] = "transfer"
    /\ \E outcome \in Outcomes :
          LET logs == IF outcome = "ok"
                      THEN InRange(chain.transfer[frame[t].cache_key],
                                   frame[t].from_block, frame[t].to_block)
                      ELSE <<>>
              records == TransferRecords(logs)
          IN  /\ frame' = [frame EXCEPT ![t].all_activities =
                     Accumulate(@, outcome, records)]
              /\ obs' = [obs EXCEPT
                     ![t].net_calls = @ + 2 + Len(records),
                     ![t].completed = @ \/ outcome # "exception",
                     ![t].matched = @ + Len(logs),
                     ![t].decoded = @ \o records,
                     ![t].logs = @ \o Decodable(logs),
                     ![t].contrib = Append(@, [matched |-> Len(logs),
                                               records |-> Len(records)])]
    /\ pc' = [pc EXCEPT ![t] = "events"]
    /\ UNCHANGED <<games_vars, tasks_vars, chain, now, _ubi_cache, session, route, ret, stored, calls, resp>>

\* what the node holds for a named-event query of the wallet
EventLogs(c, event_name, key) ==
    CASE event_name = "UBI_CLAIMED" -> c.claimed[key]
      [] event_name = "UBI_CALCULATED" -> c.calculated
      [] OTHER -> c.cycle

\* one turn of the loop over UBI_EVENT_SIGNATURES (TRANSFER skipped)
QueryEvent(t) ==
    /\ pc[t] = "events"
    /\ \E outcome \in Outcomes :
          LET event_name == EventNames[frame[t].event_i]
              wallet == frame[t].wallet_address
              logs == IF outcome = "ok"
                      THEN InRange(EventLogs(chain, event_name, frame[t].cache_key),
                                   frame[t].from_block, frame[t].to_block)
                      ELSE <<>>
              records == EventRecords(logs, event_name, wallet)
          IN  /\ frame' = [frame EXCEPT
                     ![t].all_activities = Accumulate(@, outcome, records),
                     ![t].event_i = @ + 1]
              /\ obs' = [obs EXCEPT
                     ![t].net_calls = @ + 1 + Len(records),
                     ![t].completed = @ \/ outcome # "exception",
                     ![t].matched = @ + Len(WalletFiltered(logs, event_name, wallet)),
                     ![t].decoded = @ \o records,
                     ![t].logs = @ \o Decodable(WalletFiltered(logs, event_name, wallet)),
                     ![t].contrib = Append(@,
                         [matched |-> Len(WalletFiltered(logs, event_name, wallet)),
                          records |-> Len(records)])]
    /\ pc' = [pc EXCEPT ![t] =
           IF frame[t].event_i = Len(EventNames) THEN "verdict" ELSE "events"]
    /\ UNCHANGED <<games_vars, tasks_vars, chain, now, _ubi_cache, session, route, ret, stored, calls, resp>>

\* building the success message raises (TypeError, caught by the outer
\* except) when the latest activity's tx_hash is no string
Faults(all_activities) ==
    /\ all_activities # <<>>
    /\ ~Subscriptable(SortDesc(all_activities)[1].tx_hash)

\* a verdict builder without the test for an empty list
VerdictNoEmptyTest(all_activities) ==
    IF all_activities = <<>>
    THEN [ status |-> "success", message |-> "UBI VERIFICATION SUCCESS",
           activities |-> <<>>,
           summary |-> [total_activities |-> 0, claims |-> 0, events |-> 0,
                        contracts_involved |-> 1] ]
    ELSE IF Faults(all_activities) THEN ExceptionResult
         ELSE SuccessResult(all_activities)

\* the verdict: the exception text when building it raised, else the
\* success or the no-activity result
VerdictOf(all_activities) ==
    IF all_activities = <<>> THEN NoActivityResult
    ELSE IF Faults(all_activities) THEN ExceptionResult
         ELSE SuccessResult(all_activities)

\* a store that keeps success verdicts only
CacheableSuccessOnly(result) == result.status = "success"

\* an outer except that caches its verdict like the others
CacheableAlways(result) == TRUE

\* whether the verdict goes into the cache: not the one of the outer except
Cacheable(result) == result # ExceptionResult

\* the end of has_recent_ubi_claim: one more head query when nothing was found,
\* the verdict, and _ubi_cache[cache_key] = (result, current_time)
Verdict(t) ==
    LET result == VerdictOf(frame[t].all_activities)
        key == frame[t].cache_key
    IN  /\ pc[t] = "verdict"
        /\ \E head \in {"exception", "ok"} :
              obs' = [obs EXCEPT
                  ![t].net_calls = @ + (IF frame[t].all_activities = <<>> THEN 1 ELSE 0),
                  ![t].completed = @ \/ (frame[t].all_activities = <<>> /\ head = "ok"),
                  ![t].fault = Faults(frame[t].all_activities)]
        /\ ret' = [ret EXCEPT ![t] = result]
        /\ IF Cacheable(result)
           THEN /\ _ubi_cache' = CachePut(_ubi_cache, key, result, frame[t].current_time)
                /\ stored' = [stored EXCEPT ![key] =
                       [ has |-> TRUE, result |-> result,
                         timestamp |-> frame[t].current_time, evicted |-> FALSE,
                         by |-> frame[t].wallet_address,
                         claimless |-> chain = ChainEmpty ]]
           ELSE UNCHANGED <<_ubi_cache, stored>>
        /\ pc' = [pc EXCEPT ![t] = "returned"]
        /\ UNCHANGED <<games_vars, tasks_vars, chain, now, session, route, frame, calls, resp>>

\* ------------------------------------------------------- specifications
Serve(workers, serial) ==
    \E t \in workers :
        \/ \E w \in Wallets \cup {""} : VerifyUbi(t, w, serial)
        \/ VerifyUbiFinish(t)
        \/ AuthRequired(t, serial)
        \/ AuthRequiredFinish(t)
        \/ Logout(t, serial)
        \/ CleanupScan(t)
        \/ CleanupDelete(t)
        \/ CleanupSize(t)
        \/ Lookup(t)
        \/ CacheRead(t)
        \/ Prepare(t)
        \/ QueryTransfer(t)
        \/ QueryEvent(t)
        \/ Verdict(t)

\* the requests of one client, served one after the other
Next == Tick \/ NewClaim \/ Serve({1}, TRUE)

Spec == Init /\ [][Next]_vars

\* requests of different workers interleave
NextConc == Tick \/ NewClaim \/ Serve(Threads, FALSE)

SpecConc == Init /\ [][NextConc]_vars

\* ------------------------------------------------------- minigames_manager.py
\* how a statement on the hosted database ends
DbOutcomes == {"ok", "exception"}

\* check_daily_limit(...)['can_play']: plays_today < max_plays for today's row,
\* True without a row, and True from the except when the query raised
check_daily_limit(game_type, db) ==
    IF db = "exception" THEN TRUE
    ELSE daily_game_limits[game_type][game_day] < game_configs(game_type).max_plays_per_day

\* get_deposit_balance(...).get('available_balance', 0)
get_deposit_balance(db) ==
    IF db = "exception" \/ ~minigame_balances.has THEN 0
    ELSE minigame_balances.available_balance

\* start_game_session(wallet, game_type, bet_amount); fail names the database
\* statement that raises, if one does
start_game_session(game_type, bet_amount, limit_db, fail) ==
    LET op == "start_game_session"
        available_balance == get_deposit_balance(IF fail = "balance_read" THEN "exception" ELSE "ok")
        config == game_configs(game_type)
        refused ==
            IF ~check_daily_limit(game_type, limit_db) THEN "Daily limit reached"
            ELSE IF available_balance < 10 THEN "No balance"
            ELSE IF bet_amount < config.min_bet THEN "Minimum bet"
            ELSE IF bet_amount > config.max_bet THEN "Maximum bet"
            ELSE IF bet_amount > available_balance THEN "Insufficient balance"
            ELSE IF fail = "deduct" THEN "Failed to process bet"
            ELSE ""
    IN  /\ game_ops < MaxGameOps
        /\ game_ops' = game_ops + 1
        /\ IF refused # ""
           THEN /\ game_ret' = GameRet(op, FALSE, refused)
                /\ UNCHANGED <<minigame_balances, minigame_sessions>>
           ELSE /\ minigame_balances' =
                       [minigame_balances EXCEPT !.available_balance = available_balance - bet_amount]
                /\ IF fail = "insert"
                   THEN /\ game_ret' = GameRet(op, FALSE, "exception")
                        /\ UNCHANGED minigame_sessions
                   ELSE /\ game_ret' = GameRet(op, TRUE, "")
                        /\ minigame_sessions' = Append(minigame_sessions,
                               [ game_type |-> game_type, status |-> "in_progress",
                                 bet_amount |-> bet_amount, day |-> game_day ])
        /\ UNCHANGED <<daily_game_limits, disbursed, game_day, deposit_vars, verifier_vars, tasks_vars>>

\* _update_daily_limits: today's row gets plays_today + 1, or is inserted
\* with plays_today = 1; its except swallows a failure
_update_daily_limits(game_type, db) ==
    IF db = "exception" THEN daily_game_limits
    ELSE [daily_game_limits EXCEPT ![game_type][game_day] = @ + 1]

\* complete_game_session(session_id, score) for crash_game and coin_flip:
\* the session row, the daily limit, then score is added to the balance
complete_game_session(session_id, score, fail) ==
    LET op == "complete_game_session"
        found == session_id \in 1..Len(minigame_sessions)
        game_type == minigame_sessions[session_id].game_type
    IN  /\ game_ops < MaxGameOps
        /\ game_ops' = game_ops + 1
        /\ IF fail = "session_read" \/ ~found \/ fail = "session_update"
           THEN /\ game_ret' = GameRet(op, FALSE,
                       IF fail = "none" THEN "Session not found" ELSE "exception")
                /\ UNCHANGED <<minigame_sessions, daily_game_limits, minigame_balances>>
           ELSE /\ minigame_sessions' =
                       [minigame_sessions EXCEPT ![session_id].status = "completed"]
                /\ daily_game_limits' = _update_daily_limits(game_type,
                       IF fail = "limits" THEN "exception" ELSE "ok")
                /\ IF fail \in {"balance_read", "balance_update"}
                   THEN /\ game_ret' = GameRet(op, FALSE, "exception")
                        /\ UNCHANGED minigame_balances
                   ELSE IF minigame_balances.has
                        THEN /\ minigame_balances' =
                                    [minigame_balances EXCEPT !.available_balance = @ + score]
                             /\ game_ret' = GameRet(op, TRUE, "")
                        ELSE /\ game_ret' = GameRet(op, FALSE, "No balance found")
                             /\ UNCHANGED minigame_balances
        /\ UNCHANGED <<disbursed, game_day, deposit_vars, verifier_vars, tasks_vars>>

\* the balance row after a withdrawal that got to the disbursement: updated
\* when the disbursement succeeded and the update did not raise
BalanceAfterWithdrawal(fail) ==
    IF fail \in {"disburse_raises", "disburse_fails", "balance_update"} THEN minigame_balances
    ELSE [minigame_balances EXCEPT
             !.available_balance = 0,
             !.total_withdrawn = @ + minigame_balances.available_balance]

\* withdraw_winnings(wallet): the whole balance goes out through
\* disburse_from_games_key, which sends it, reports a failure, or raises
withdraw_winnings(fail) ==
    LET op == "withdraw_winnings"
        available_balance == minigame_balances.available_balance
        refused ==
            IF fail = "balance_read" THEN "exception"
            ELSE IF ~minigame_balances.has THEN "No balance found"
            ELSE IF available_balance <= 0 THEN "No balance available to withdraw"
            ELSE IF available_balance < MIN_WITHDRAWAL THEN "Minimum withdrawal"
            ELSE IF available_balance > MAX_WITHDRAWAL THEN "Maximum withdrawal"
            ELSE ""
    IN  /\ game_ops < MaxGameOps
        /\ game_ops' = game_ops + 1
        /\ IF refused # ""
           THEN /\ game_ret' = GameRet(op, FALSE, refused)
                /\ UNCHANGED <<minigame_balances, disbursed>>
           ELSE /\ disbursed' = IF fail \in {"disburse_raises", "disburse_fails"}
                                THEN disbursed ELSE disbursed + available_balance
                /\ minigame_balances' = BalanceAfterWithdrawal(fail)
                /\ game_ret' = IF fail = "none" THEN GameRet(op, TRUE, "")
                               ELSE IF fail = "disburse_fails"
                                    THEN GameRet(op, FALSE, "Withdrawal failed. Your balance is safe.")
                                    ELSE GameRet(op, FALSE, "Withdrawal error. Your balance is safe.")
        /\ UNCHANGED <<daily_game_limits, minigame_sessions, game_day, deposit_vars, verifier_vars, tasks_vars>>

\* midnight
NextDay ==
    /\ game_day < MaxDays
    /\ game_day' = game_day + 1
    /\ UNCHANGED <<daily_game_limits, minigame_sessions, minigame_balances, disbursed,
                   game_ret, game_ops, deposit_vars, verifier_vars, tasks_vars>>

\* the tables after the loop body of auto_verify_pending_deposits for one
\* deposit; recorded_tx_hashes is the list read before the loop, fail the
\* statement that raises for this deposit, if one does (the except of the
\* body logs it and goes on to the next deposit)
RecordDeposit(tables, deposit, recorded_tx_hashes, fail) ==
    IF deposit.tx_hash \in recorded_tx_hashes THEN tables
    ELSE IF deposit.amount < MIN_DEPOSIT \/ deposit.amount > MAX_DEPOSIT THEN tables
    ELSE IF fail \in {"balance_read", "balance_write"} THEN tables
    ELSE LET credit ==
                 [ tables EXCEPT
                     !.balances =
                         IF tables.balances.has
                         THEN [tables.balances EXCEPT !.available_balance = @ + deposit.amount]
                         ELSE BalanceRow(deposit.amount),
                     !.credited[deposit.tx_hash] = @ + 1 ]
         IN  IF fail = "log_insert" THEN credit
             ELSE [ credit EXCEPT
                      !.log = @ \cup {deposit.tx_hash},
                      !.verified_count = @ + 1 ]

\* for deposit in deposits_found: the statement fail raises at deposit fail_at
RECURSIVE ProcessDeposits(_, _, _, _, _, _)
ProcessDeposits(tables, deposits_found, i, recorded_tx_hashes, fail, fail_at) ==
    IF i > Len(deposits_found) THEN tables
    ELSE ProcessDeposits(
             RecordDeposit(tables, deposits_found[i], recorded_tx_hashes,
                           IF i = fail_at THEN fail ELSE "none"),
             deposits_found, i + 1, recorded_tx_hashes, fail, fail_at)

\* auto_verify_pending_deposits(wallet): deposits_found is what
\* check_pending_deposits lists; fail = "scan" is a scan that reports no
\* success, "recorded_read" the read of minigame_deposits_log raising
auto_verify_pending_deposits(deposits_found, fail, fail_at) ==
    LET op == "auto_verify_pending_deposits"
        tables == ProcessDeposits(
            [ balances |-> minigame_balances, log |-> minigame_deposits_log,
              credited |-> credited, verified_count |-> 0 ],
            deposits_found, 1, minigame_deposits_log, fail, fail_at)
    IN  /\ game_ops < MaxGameOps
        /\ game_ops' = game_ops + 1
        /\ IF fail = "scan"
           THEN /\ game_ret' = GameRet(op, FALSE, "scan failed")
                /\ UNCHANGED <<minigame_balances, deposit_vars>>
           ELSE IF deposits_found = <<>>
           THEN /\ game_ret' = GameRet(op, TRUE, "No pending deposits found")
                /\ UNCHANGED <<minigame_balances, deposit_vars>>
           ELSE IF fail = "recorded_read"
           THEN /\ game_ret' = GameRet(op, FALSE, "exception")
                /\ UNCHANGED <<minigame_balances, deposit_vars>>
           ELSE /\ game_ret' = GameRet(op, TRUE, "")
                /\ minigame_balances' = tables.balances
                /\ minigame_deposits_log' = tables.log
                /\ credited' = tables.credited
        /\ UNCHANGED <<daily_game_limits, minigame_sessions, disbursed, game_day,
                       verifier_vars, tasks_vars>>

\* the wallet has deposited nothing, 50 G$ or 300 G$
\* the verifier at rest
VerifierIdle ==
    /\ chain = ChainEmpty
    /\ now = 0
    /\ _ubi_cache = <<>>
    /\ session = [t \in Threads |-> EmptySession]
    /\ pc = [t \in Threads |-> "idle"]
    /\ route = [t \in Threads |-> ""]
    /\ frame = [t \in Threads |-> EmptyFrame]
    /\ ret = [t \in Threads |-> NoRet]
    /\ obs = [t \in Threads |-> EmptyObs]
    /\ stored = [key \in Keys |-> [has |-> FALSE, result |-> NoRet, timestamp |-> 0, evicted |-> FALSE, by |-> "", claimless |-> FALSE]]
    /\ calls = 0
    /\ resp = [t \in Threads |-> NoResp]

\* what check_pending_deposits can list for the wallet: nothing, one deposit,
\* the same transaction twice, two deposits of which one is under the minimum
DepositScans ==
    { <<>>,
      <<Deposit("0xd1", 100)>>,
      <<Deposit("0xd1", 100), Deposit("0xd1", 100)>>,
      <<Deposit("0xd2", 50), Deposit("0xd3", 300)>> }

InitGames ==
    /\ GamesIdle
    /\ TasksIdle
    /\ VerifierIdle
    /\ minigame_balances \in {NoBalance, BalanceRow(50), BalanceRow(300)}

NextGames ==
    \/ \E game_type \in GameTypes, bet_amount \in {5, 10, 50, 300}, limit_db \in DbOutcomes,
          fail \in {"none", "balance_read", "deduct", "insert"} :
          start_game_session(game_type, bet_amount, limit_db, fail)
    \/ \E session_id \in 0..Len(minigame_sessions), score \in {0, 100},
          fail \in {"none", "session_read", "session_update", "limits",
                    "balance_read", "balance_update"} :
          complete_game_session(session_id, score, fail)
    \/ \E fail \in {"none", "balance_read", "disburse_raises", "disburse_fails",
                    "balance_update", "log_insert"} :
          withdraw_winnings(fail)
    \/ \E deposits_found \in DepositScans,
          fail \in {"none", "scan", "recorded_read", "balance_read", "balance_write",
                    "log_insert"},
          fail_at \in 1..2 :
          auto_verify_pending_deposits(deposits_found, fail, fail_at)
    \/ NextDay

SpecGames == InitGames /\ [][NextGames]_vars

\* ------------------------------------------- telegram_task.py, routes.py
\* post links a client can send: two posts of the channel, and a link that
\* _validate_telegram_url rejects (no https://t.me/GoodDollarX/<message id>)
TelegramUrls ==
    {"https://t.me/GoodDollarX/200001", "https://t.me/GoodDollarX/200002", "https://t.me/x"}

\* _validate_telegram_url(...)['valid']: the prefix, the channel and a message
\* id of 200000 or more; fetching the post never rejects a link of that form
_validate_telegram_url(telegram_url) ==
    telegram_url \in {"https://t.me/GoodDollarX/200001", "https://t.me/GoodDollarX/200002"}

\* ids of the rows that .eq('wallet_address', w).eq('status', 'pending') selects
PendingRows(log, w) ==
    {i \in 1..Len(log) : log[i].wallet_address = w /\ log[i].status = "pending"}

\* ids of the wallet's completed or rejected rows with created_at >= cutoff_time
RecentRows(log, w, cutoff_time) ==
    {i \in 1..Len(log) :
        /\ log[i].wallet_address = w
        /\ log[i].status \in {"completed", "rejected"}
        /\ log[i].created_at >= cutoff_time}

\* .order('created_at', desc=True).limit(1): of the rows created last, the
\* one inserted last
LatestRow(log, ids) ==
    CHOOSE i \in ids : \A j \in ids :
        log[j].created_at < log[i].created_at
            \/ (log[j].created_at = log[i].created_at /\ j <= i)

\* check_eligibility(wallet)['can_claim']: False with a pending row, False when
\* the latest completed or rejected row of the last 24 hours is completed, True
\* otherwise, and True from the except when a query raised
check_eligibility(log, w, db) ==
    IF db = "exception" THEN TRUE
    ELSE IF PendingRows(log, w) # {} THEN FALSE
    ELSE LET recent == RecentRows(log, w, task_now - cooldown_hours)
         IN  IF recent = {} THEN TRUE
             ELSE log[LatestRow(log, recent)].status = "rejected"

\* a wallet's request ends
TaskReturn(w, result) ==
    /\ task_ret' = [task_ret EXCEPT ![w] = result]
    /\ task_pc' = [task_pc EXCEPT ![w] = "idle"]

\* a request may begin; serial: only when no other is in service
TaskCanStart(w, serial) ==
    /\ task_pc[w] = "idle"
    /\ task_claims < MaxClaims
    /\ serial => \A u \in TaskWallets : task_pc[u] = "idle"

\* POST /api/daily-task/claim with platform telegram: claim_task_reward up to
\* the URL validation (maintenance mode, then _validate_telegram_url)
ClaimTelegram(w, telegram_url, is_maintenance, serial) ==
    /\ TaskCanStart(w, serial)
    /\ task_claims' = task_claims + 1
    /\ task_frame' = [task_frame EXCEPT ![w].telegram_url = telegram_url]
    /\ IF is_maintenance
       THEN TaskReturn(w, TaskRet(FALSE, "maintenance", "telegram"))
       ELSE IF ~_validate_telegram_url(telegram_url)
            THEN TaskReturn(w, TaskRet(FALSE, "invalid url", "telegram"))
            ELSE /\ task_pc' = [task_pc EXCEPT ![w] = "eligibility"]
                 /\ task_ret' = [task_ret EXCEPT ![w] = NoTaskRet]
    /\ UNCHANGED <<telegram_task_log, twitter_task, task_now, verifier_vars, games_vars>>

\* eligibility = await self.check_eligibility(wallet_address)
ClaimEligibility(w) ==
    /\ task_pc[w] = "eligibility"
    /\ \E db \in DbOutcomes :
          IF check_eligibility(telegram_task_log, w, db)
          THEN /\ task_pc' = [task_pc EXCEPT ![w] = "url_check"]
               /\ UNCHANGED task_ret
          ELSE TaskReturn(w, TaskRet(FALSE, "not eligible", "telegram"))
    /\ UNCHANGED <<telegram_task_log, twitter_task, task_now, task_frame, task_claims,
                   verifier_vars, games_vars>>

\* the select on telegram_url: any row with the link refuses the request, and
\* so does a select that raises
ClaimUrlCheck(w) ==
    /\ task_pc[w] = "url_check"
    /\ \E db \in DbOutcomes :
          IF db = "exception"
          THEN TaskReturn(w, TaskRet(FALSE, "Unable to verify post uniqueness", "telegram"))
          ELSE IF \E i \in 1..Len(telegram_task_log) :
                      telegram_task_log[i].telegram_url = task_frame[w].telegram_url
               THEN TaskReturn(w, TaskRet(FALSE, "link already used", "telegram"))
               ELSE /\ task_pc' = [task_pc EXCEPT ![w] = "insert"]
                    /\ UNCHANGED task_ret
    /\ UNCHANGED <<telegram_task_log, twitter_task, task_now, task_frame, task_claims,
                   verifier_vars, games_vars>>

\* the insert of the pending row; an insert that raises (the database is
\* unreachable, or refuses the row) is reported and leaves no row
ClaimInsert(w) ==
    /\ task_pc[w] = "insert"
    /\ Len(telegram_task_log) < MaxRows
    /\ \E db \in DbOutcomes :
          IF db = "exception"
          THEN /\ TaskReturn(w, TaskRet(FALSE, "Failed to submit for approval", "telegram"))
               /\ UNCHANGED telegram_task_log
          ELSE /\ telegram_task_log' = Append(telegram_task_log,
                      [ wallet_address |-> w, telegram_url |-> task_frame[w].telegram_url,
                        status |-> "pending", created_at |-> task_now ])
               /\ TaskReturn(w, TaskRet(TRUE, "", "telegram"))
    /\ UNCHANGED <<twitter_task, task_now, task_frame, task_claims, verifier_vars, games_vars>>

\* approve_submission: a pending row becomes completed when the reward was
\* disbursed and failed when it was not
approve_submission(submission_id, disbursed_ok) ==
    /\ submission_id \in 1..Len(telegram_task_log)
    /\ telegram_task_log[submission_id].status = "pending"
    /\ telegram_task_log' = [telegram_task_log EXCEPT ![submission_id].status =
           IF disbursed_ok THEN "completed" ELSE "failed"]
    /\ UNCHANGED <<twitter_task, task_now, task_pc, task_frame, task_ret, task_claims,
                   verifier_vars, games_vars>>

\* reject_submission: a pending row becomes rejected
reject_submission(submission_id) ==
    /\ submission_id \in 1..Len(telegram_task_log)
    /\ telegram_task_log[submission_id].status = "pending"
    /\ telegram_task_log' = [telegram_task_log EXCEPT ![submission_id].status = "rejected"]
    /\ UNCHANGED <<twitter_task, task_now, task_pc, task_frame, task_ret, task_claims,
                   verifier_vars, games_vars>>

\* POST /api/daily-task/claim with platform twitter, accepted: the wallet's
\* Twitter task is pending
ClaimTwitter(w, serial) ==
    /\ TaskCanStart(w, serial)
    /\ twitter_task[w] = "none"
    /\ task_claims' = task_claims + 1
    /\ twitter_task' = [twitter_task EXCEPT ![w] = "pending"]
    /\ task_ret' = [task_ret EXCEPT ![w] = TaskRet(TRUE, "", "twitter")]
    /\ UNCHANGED <<telegram_task_log, task_now, task_pc, task_frame, verifier_vars, games_vars>>

\* the admin approves the Twitter submission: its cooldown runs
ApproveTwitter(w) ==
    /\ twitter_task[w] = "pending"
    /\ twitter_task' = [twitter_task EXCEPT ![w] = "cooldown"]
    /\ UNCHANGED <<telegram_task_log, task_now, task_pc, task_frame, task_ret, task_claims,
                   verifier_vars, games_vars>>

\* GET /api/daily-task/status: can_claim of the two platforms, and no pending
\* submission on either
get_daily_task_status(w) ==
    /\ twitter_task[w] = "none"
    /\ check_eligibility(telegram_task_log, w, "ok")
    /\ PendingRows(telegram_task_log, w) = {}

\* the clock of the daily tasks advances
TaskTick ==
    /\ task_now < MaxTaskTicks * TaskHours
    /\ task_now' = task_now + TaskHours
    /\ UNCHANGED <<telegram_task_log, twitter_task, task_pc, task_frame, task_ret,
                   task_claims, verifier_vars, games_vars>>

InitTasks ==
    /\ TasksIdle
    /\ GamesIdle
    /\ minigame_balances = NoBalance
    /\ VerifierIdle

ServeTasks(serial) ==
    \/ \E w \in TaskWallets, telegram_url \in TelegramUrls, is_maintenance \in BOOLEAN :
          ClaimTelegram(w, telegram_url, is_maintenance, serial)
    \/ \E w \in TaskWallets : ClaimEligibility(w)
    \/ \E w \in TaskWallets : ClaimUrlCheck(w)
    \/ \E w \in TaskWallets : ClaimInsert(w)
    \/ \E submission_id \in 1..MaxRows, disbursed_ok \in BOOLEAN :
          approve_submission(submission_id, disbursed_ok)
    \/ \E submission_id \in 1..MaxRows : reject_submission(submission_id)
    \/ \E w \in TaskWallets : ClaimTwitter(w, serial)
    \/ \E w \in TaskWallets : ApproveTwitter(w)
    \/ TaskTick

\* the daily-task requests served one after the other
NextTasks == ServeTasks(TRUE)

SpecTasks == InitTasks /\ [][NextTasks]_vars

\* the requests of different wallets interleave at every database statement
NextTasksConc == ServeTasks(FALSE)

SpecTasksConc == InitTasks /\ [][NextTasksConc]_vars

\* ------------------------------------------------------------ properties
\* the cache key of worker t's call, and the latest store for it
KeyOf(t) == frame[t].cache_key
Prior(t) == stored[KeyOf(t)]

\* the call of worker t read its clock less than the TTL after the
\* timestamp of the latest store for its wallet
PriorWithinTTL(t) ==
    /\ Prior(t).has
    /\ frame[t].current_time - Prior(t).timestamp < 300

\* C1 as stated: a call within 300 seconds of the latest store for its wallet
\* never goes to the aggregation; it returns the stored result and issues no
\* network query.
C1_AsStated ==
    \A t \in Threads :
        /\ pc[t] = "prepare" => ~PriorWithinTTL(t)
        /\ (pc[t] = "returned" /\ obs[t].hit) =>
               (ret[t] = Prior(t).result /\ obs[t].net_calls = 0)

\* C1 amended: a call within 300 seconds of the latest store for its wallet
\* returns the stored result and issues no network query, unless the size
\* phase of a sweep has evicted the entry since that store.
C1_CacheIdempotence ==
    \A t \in Threads :
        /\ pc[t] = "prepare" => ~(PriorWithinTTL(t) /\ ~Prior(t).evicted)
        /\ (pc[t] = "returned" /\ obs[t].hit) =>
               (ret[t] = Prior(t).result /\ obs[t].net_calls = 0)

\* a later call returned the stored success from the cache
C1_Witness ==
    \E t \in Threads :
        /\ pc[t] = "returned" /\ obs[t].hit
        /\ ret[t].status = "success"
        /\ frame[t].current_time > Prior(t).timestamp

\* C2: a call whose clock is 300 or more seconds past the latest store for its
\* wallet never returns the stored entry; a call that does not return a
\* stored entry runs the aggregation (it queries the network).
C2_CacheExpiry ==
    \A t \in Threads :
        pc[t] = "returned" =>
            /\ obs[t].hit =>
                   (Prior(t).has /\ frame[t].current_time - Prior(t).timestamp < 300)
            /\ ~obs[t].hit => obs[t].net_calls > 0

\* a call found the entry still in the dict, exactly 300 seconds old, and
\* went on to the aggregation
C2_Witness ==
    \E t \in Threads :
        /\ pc[t] = "prepare"
        /\ KeyOf(t) \in CacheKeys(_ubi_cache)
        /\ Prior(t).has
        /\ frame[t].current_time - Prior(t).timestamp >= 300

\* C3: the cache never holds more than _UBI_CACHE_MAX_SIZE entries.
C3_CacheBound == Len(_ubi_cache) <= _UBI_CACHE_MAX_SIZE

\* C4: a call whose computation raised returns status=error and leaves in the
\* cache no entry that the next call for the wallet could return.
C4_FaultNotCached ==
    \A t \in Threads :
        (pc[t] = "returned" /\ obs[t].fault) =>
            /\ ret[t].status = "error"
            /\ \A i \in 1..Len(_ubi_cache) :
                   _ubi_cache[i].key = KeyOf(t) => now - _ubi_cache[i].timestamp >= 300

\* a call ended in the outer except
C4_Witness == \E t \in Threads : pc[t] = "returned" /\ obs[t].fault

\* C5: a call none of whose network queries completed returns the exception
\* verdict and leaves nothing in the cache for its wallet.
C5_ConnectivityLoss ==
    \A t \in Threads :
        (pc[t] = "returned" /\ ~obs[t].hit /\ ~obs[t].completed) =>
            /\ ret[t] = ExceptionResult
            /\ KeyOf(t) \notin CacheKeys(_ubi_cache)

\* C6: a session becomes verified, or verified for another wallet, only in
\* the step of verify_ubi that holds a success verdict for that wallet; and
\* verify_ubi holding any other verdict leaves the session as it was.
C6_SessionGate ==
    [][\A t \in Threads :
          /\ (session'[t] # session[t] /\ session'[t].verified) =>
                 /\ pc[t] = "returned" /\ route[t] = "verify_ubi"
                 /\ ret[t].status = "success"
                 /\ session'[t].wallet = frame[t].wallet_address
          /\ (route[t] = "verify_ubi" /\ pc[t] = "returned" /\ pc'[t] = "idle"
                 /\ ret[t].status # "success") => session'[t] = session[t]]_vars

\* a client holds a verified session
C6_Witness == \E t \in Threads : session[t].verified /\ session[t].wallet # ""

\* C7: no call of has_recent_ubi_claim raises to its caller.
C7_NeverRaises == \A t \in Threads : pc[t] # "raised"

\* C8: a call whose sub-queries returned no matching log returns status=error
\* with no summary and no activities.
C8_NoLogsNoSuccess ==
    \A t \in Threads :
        (pc[t] = "returned" /\ ~obs[t].hit /\ obs[t].matched = 0) =>
            /\ ret[t].status = "error"
            /\ "summary" \notin DOMAIN ret[t]
            /\ "activities" \notin DOMAIN ret[t]

\* the node answered the queries, with no log
C8_Witness ==
    \E t \in Threads :
        pc[t] = "returned" /\ ~obs[t].hit /\ obs[t].matched = 0 /\ obs[t].completed

\* C9: a success verdict has a non-empty activities list in descending block
\* order, and summary.latest_activity is its first element, of maximal block.
C9_SortedLatest ==
    \A t \in Threads :
        (pc[t] = "returned" /\ ret[t].status = "success") =>
            LET acts == ret[t].activities
            IN  /\ Len(acts) > 0
                /\ \A i \in 1..(Len(acts) - 1) : acts[i].block >= acts[i + 1].block
                /\ ret[t].summary.latest_activity = acts[1]
                /\ \A i \in 1..Len(acts) : acts[i].block <= ret[t].summary.latest_activity.block

\* a success whose records were decoded in another order than the returned one
C9_Witness ==
    \E t \in Threads :
        /\ pc[t] = "returned" /\ ret[t].status = "success" /\ ~obs[t].hit
        /\ Len(ret[t].activities) > 1
        /\ obs[t].decoded # ret[t].activities

Occurrences(seq, x) == Cardinality({i \in 1..Len(seq) : seq[i] = x})

OneTransferDecoded(t) ==
    /\ pc[t] = "returned" /\ ~obs[t].hit
    /\ Len(obs[t].decoded) = 1
    /\ obs[t].decoded[1].method = "UBI claim"

C12_BlockRange ==
    \A t \in Threads :
        obs[t].head # "" =>
            /\ obs[t].head = "ok" => frame[t].to_block = LatestBlock
            /\ obs[t].head = "exception" => frame[t].to_block = 0
            /\ frame[t].from_block = frame[t].to_block - 48 * 720
            /\ pc[t] # "raised"
            /\ obs[t].head = "exception" =>
                   /\ frame[t].all_activities = <<>>
                   /\ pc[t] = "returned" => ret[t] = NoActivityResult

\* a call whose head query failed and whose log queries the node answered
C12_Witness ==
    \E t \in Threads :
        /\ pc[t] = "returned" /\ obs[t].head = "exception" /\ obs[t].completed
        /\ chain = ChainTypical /\ KeyOf(t) = "0xb"

\* the wallet strings that are lower case
LowerCase == {"0xa", "0xb", "0xc"}

RecentActivity(c, key, hours) ==
    LET recent(logs) == \E i \in 1..Len(logs) :
            /\ logs[i].at >= LatestBlock - hours * blocks_per_hour
            /\ logs[i].at <= LatestBlock
    IN  \/ recent(c.transfer[key])
        \/ recent(c.claimed[key])
        \/ recent(WalletFiltered(c.calculated, "UBI_CALCULATED", key))
        \/ recent(WalletFiltered(c.cycle, "UBI_CYCLE_CALCULATED", key))

\* C14: the wrapped handler of auth_required runs only for a session whose
\* wallet has UBI activity in the last 24 hours (17280 blocks).
C14_Within24Hours ==
    \A t \in Threads :
        resp[t] = Response("auth_required", "handler") =>
            RecentActivity(chain, Lower(session[t].wallet), CUTOFF_HOURS)

\* C15: in auth_required a verdict other than success clears the session and
\* answers 401 in place of the handler; the handler runs for a verified
\* session only, and a request of a session that is not verified gets 401.
C15_AutoLogout ==
    [][\A t \in Threads :
          /\ (route[t] = "auth_required" /\ pc[t] = "returned" /\ pc'[t] = "idle"
                 /\ ret[t].status # "success") =>
                 /\ session'[t] = EmptySession
                 /\ resp'[t] = Response("auth_required", "401 auto_logout")
          /\ resp'[t] = Response("auth_required", "handler") =>
                 (session[t].verified /\ session'[t].verified)
          /\ (~session[t].verified /\ resp'[t] # resp[t] /\ resp'[t].route = "auth_required") =>
                 resp'[t].code = "401"]_vars

\* a verified session was logged out by the wrapper
C15_Witness ==
    \E t \in Threads :
        /\ resp[t] = Response("auth_required", "401 auto_logout")
        /\ session[t] = EmptySession

\* sessions of a game started on a day
StartedOn(game_type, day) ==
    Cardinality({i \in 1..Len(minigame_sessions) :
        minigame_sessions[i].game_type = game_type /\ minigame_sessions[i].day = day})

\* C16: for each of crash_game and coin_flip at most max_plays_per_day (20)
\* sessions are started on one calendar day, completed or not.
C16_DailyStarts ==
    \A game_type \in GameTypes, day \in 0..MaxDays :
        StartedOn(game_type, day) <= max_plays_per_day

\* C17: a withdraw_winnings that returns success=False has disbursed nothing
\* and left the balance row as it was, and one that disbursed has left
\* available_balance = 0.
C17_WithdrawAllOrNothing ==
    [][(game_ops' # game_ops /\ game_ret'.op = "withdraw_winnings") =>
          /\ ~game_ret'.success =>
                 (disbursed' = disbursed /\ minigame_balances' = minigame_balances)
          /\ disbursed' # disbursed => minigame_balances'.available_balance = 0]_vars

\* a row was added to the Telegram submission log
NewRow == Len(telegram_task_log') = Len(telegram_task_log) + 1
NewRowWallet == telegram_task_log'[Len(telegram_task_log')].wallet_address

\* C18: a Telegram submission is created only for a wallet whose Twitter task
\* is neither pending nor in cooldown and whose Telegram task can be claimed.
C18_SharedCooldown ==
    [][NewRow => get_daily_task_status(NewRowWallet)]_vars

\* C19: a wallet with a pending submission, or with a completed submission
\* created less than 24 hours ago, gets no new submission; no wallet has two
\* pending submissions.
C19_CooldownFromSubmission ==
    [][/\ NewRow =>
             /\ PendingRows(telegram_task_log, NewRowWallet) = {}
             /\ \A i \in 1..Len(telegram_task_log) :
                    (telegram_task_log[i].wallet_address = NewRowWallet
                        /\ telegram_task_log[i].status = "completed") =>
                        task_now - telegram_task_log[i].created_at >= 24
       /\ \A w \in TaskWallets : Cardinality(PendingRows(telegram_task_log', w)) <= 1]_vars

\* C20: no two rows of the submission log carry the same telegram_url.
C20_UrlOnce ==
    \A i, j \in 1..Len(telegram_task_log) :
        telegram_task_log[i].telegram_url = telegram_task_log[j].telegram_url => i = j

\* C21: a freshly stored entry carries the time of the store: when a call
\* returns the verdict it has just stored, the entry's age is 0.
C21_StoreTime ==
    \A t \in Threads :
        (pc[t] = "returned" /\ ~obs[t].hit /\ Cacheable(ret[t])
            /\ KeyOf(t) \in CacheKeys(_ubi_cache)) =>
            now - CacheEntry(_ubi_cache, KeyOf(t)).timestamp = 0

\* the entries a step removes from the cache, and those it keeps
Removed == {i \in 1..Len(_ubi_cache) : _ubi_cache[i].key \notin CacheKeys(_ubi_cache')}
Kept == {i \in 1..Len(_ubi_cache) : _ubi_cache[i].key \in CacheKeys(_ubi_cache')}

\* C22: the size phase of a sweep removes exactly the excess over the maximum
\* (nothing at or under it), and every entry it removes has a timestamp no
\* later than that of every entry it keeps.
C22_OldestFirst ==
    [][\A t \in Threads :
          (pc[t] = "cleanup_size" /\ pc'[t] = "lookup") =>
              /\ Cardinality(Removed) =
                     IF Len(_ubi_cache) > _UBI_CACHE_MAX_SIZE
                     THEN Len(_ubi_cache) - _UBI_CACHE_MAX_SIZE ELSE 0
              /\ \A i \in Removed, j \in Kept :
                     _ubi_cache[i].timestamp <= _ubi_cache[j].timestamp
              /\ \A j \in Kept : _ubi_cache[j] = CacheEntry(_ubi_cache', _ubi_cache[j].key)]_vars

\* a size phase has evicted an entry that was older than one it kept
C22_Witness ==
    /\ Len(_ubi_cache) = _UBI_CACHE_MAX_SIZE
    /\ \E key \in Keys :
          /\ stored[key].evicted
          /\ key \notin CacheKeys(_ubi_cache)
          /\ \E i \in 1..Len(_ubi_cache) : stored[key].timestamp < _ubi_cache[i].timestamp

\* C28: the timestamp of a wallet's cache entry never moves backwards.
C28_TimestampMonotone ==
    [][\A i \in 1..Len(_ubi_cache) :
          _ubi_cache[i].key \in CacheKeys(_ubi_cache') =>
              CacheEntry(_ubi_cache', _ubi_cache[i].key).timestamp >= _ubi_cache[i].timestamp]_vars

\* the latest store for the wallet of worker t's call is the no-activity error
PriorNoActivity(t) == Prior(t).has /\ Prior(t).result = NoActivityResult

\* C23 as stated: once the no-activity error is stored, no call for the wallet
\* within 300 seconds of the entry's timestamp goes to the aggregation, and the
\* call gets that error without a network query.
C23_AsStated ==
    \A t \in Threads :
        /\ pc[t] = "prepare" => ~(PriorNoActivity(t) /\ PriorWithinTTL(t))
        /\ (pc[t] = "returned" /\ obs[t].hit /\ PriorNoActivity(t)) =>
               (ret[t] = NoActivityResult /\ obs[t].net_calls = 0)

\* C23 amended: the no-activity error is stored in the cache by the call that
\* computed it, and every later call for the wallet within 300 seconds of the
\* entry's timestamp returns that error without a network query, whatever has
\* appeared on the chain meanwhile, unless the size phase of a sweep has
\* evicted the entry since the store.
C23_ErrorCached ==
    \A t \in Threads :
        /\ pc[t] = "prepare" =>
               ~(PriorNoActivity(t) /\ PriorWithinTTL(t) /\ ~Prior(t).evicted)
        /\ (pc[t] = "returned" /\ obs[t].hit /\ PriorNoActivity(t)) =>
               (ret[t] = NoActivityResult /\ obs[t].net_calls = 0)
        /\ (pc[t] = "returned" /\ ~obs[t].hit /\ ret[t] = NoActivityResult) =>
               /\ KeyOf(t) \in CacheKeys(_ubi_cache)
               /\ CacheEntry(_ubi_cache, KeyOf(t)).result = NoActivityResult

\* a call got from the cache the error stored when nobody had claimed, while
\* the chain holds a claim of its wallet inside the search range
C23_Witness ==
    \E t \in Threads :
        /\ pc[t] = "returned" /\ obs[t].hit
        /\ ret[t] = NoActivityResult
        /\ obs[t].net_calls = 0
        /\ Prior(t).claimless
        /\ chain = ChainTypical
        /\ InRange(chain.transfer[KeyOf(t)],
                   LatestBlock - search_hours * blocks_per_hour, LatestBlock) # <<>>

\* C24: for every record of a named-event log whose data field does not yield
\* an integer (absent, empty, "0x" or unparseable) while topic index 2 exists
\* and parses, the amount is the value of topic 2; the amount is "Event logged"
\* only when neither the data field nor topic 2 yields an integer.
C24_TwoStageAmount ==
    \A t \in Threads : \A i \in 1..Len(obs[t].decoded) :
        obs[t].decoded[i].activity_type = "ubi_event" =>
            LET log == obs[t].logs[i]
                from_data == Int16(log.data).ok
                from_topic == Len(log.topics) > 2 /\ Int16(log.topics[3]).ok
            IN  /\ (~from_data /\ from_topic) =>
                       obs[t].decoded[i].amount = AmountG(Int16(log.topics[3]).v)
                /\ obs[t].decoded[i].amount = EventLogged =>
                       (~from_data /\ ~from_topic)

\* C25: every sub-query contributes one record per matching log of its
\* response, or none when it failed: the number of records it contributed is
\* the number of logs that matched.
C25_AllOrNothing ==
    \A t \in Threads : \A i \in 1..Len(obs[t].contrib) :
        obs[t].contrib[i].records = obs[t].contrib[i].matched

\* C26: every activity of a success verdict computed by a call has its block
\* inside the range the call resolved.
C26_BlockInRange ==
    \A t \in Threads :
        (pc[t] = "returned" /\ ~obs[t].hit /\ ret[t].status = "success") =>
            \A i \in 1..Len(ret[t].activities) :
                /\ frame[t].from_block <= ret[t].activities[i].block
                /\ ret[t].activities[i].block <= frame[t].to_block

\* C27: over any sequence of auto_verify_pending_deposits calls, no tx_hash
\* has been added to the wallet's available_balance more than once.
C27_CreditedOnce ==
    \A tx_hash \in DepositTxs : credited[tx_hash] <= 1

=============================================================================
